---------------------------- MODULE Spec2Model ----------------------------
(***************************************************************************)
(* Model of the charon daemon's control core (src/src/charon/charon.c):    *)
(* main()'s startup chain, the PID-file guard, the privilege drop, the     *)
(* logger setup, the signal loop run() and the teardown.                   *)
(*                                                                         *)
(* main() is one sequential thread; pc is its position.  Every action is   *)
(* one statement group of main() or one whole helper function.  Results of *)
(* system and library calls that the code tests (or explicitly ignores)    *)
(* are chosen nondeterministically.  The build modelled is the one with    *)
(* IPSEC_USER and IPSEC_GROUP defined.                                     *)
(***************************************************************************)
EXTENDS Integers, Sequences, FiniteSets, TLC

(***************************************************************************)
(* Bounds of the model.                                                    *)
(***************************************************************************)
\* number of debug groups modelled (DBG_MAX of the build)
NumGroups == 2
\* longest command line (number of options after argv[0])
MaxArgs == 1

(***************************************************************************)
(* Program constants.                                                      *)
(***************************************************************************)
LEVEL_SILENT == -1
LEVEL_AUDIT == 0
LEVEL_CTRL == 1
LEVEL_DIAG == 2
SS_RC_LIBSTRONGSWAN_INTEGRITY == 64
SS_RC_DAEMON_INTEGRITY == 65
SS_RC_INITIALIZATION_FAILED == 66
\* sizeof(buf) in check_pidfile()
PIDBUF == 64

DBG_MAX == NumGroups
Groups == 0 .. (DBG_MAX - 1)

\* the signals sigwait() hands to the dispatch in run(); SIGUSR1 stands for
\* any number that is none of the three cases of the switch
Signals == {"SIGHUP", "SIGINT", "SIGTERM", "SIGUSR1"}

(***************************************************************************)
(* Text <-> number conversions: atoi() and printf("%d\n").                 *)
(***************************************************************************)
Digits == <<"0", "1", "2", "3", "4", "5", "6", "7", "8", "9">>

IsDigit(c) == \E i \in 1 .. 10 : Digits[i] = c

DigitVal(c) == (CHOOSE i \in 1 .. 10 : Digits[i] = c) - 1

IsSpace(c) == c \in {" ", "\n", "\t"}

RECURSIVE SkipSpace(_, _)
SkipSpace(s, i) ==
    IF i <= Len(s) /\ IsSpace(s[i]) THEN SkipSpace(s, i + 1) ELSE i

RECURSIVE AtoiDigits(_, _, _)
AtoiDigits(s, i, acc) ==
    IF i <= Len(s) /\ IsDigit(s[i])
    THEN AtoiDigits(s, i + 1, acc * 10 + DigitVal(s[i]))
    ELSE acc

\* atoi(): leading white space, an optional sign, then decimal digits up to
\* the first other character; 0 when there is no digit
Atoi(s) ==
    LET i == SkipSpace(s, 1)
        neg == i <= Len(s) /\ s[i] = "-"
        j == IF i <= Len(s) /\ s[i] \in {"-", "+"} THEN i + 1 ELSE i
        v == AtoiDigits(s, j, 0)
    IN  IF neg THEN 0 - v ELSE v

RECURSIVE FormatNat(_)
FormatNat(n) ==
    IF n < 10 THEN <<Digits[n + 1]>>
    ELSE FormatNat(n \div 10) \o <<Digits[(n % 10) + 1]>>

\* fprintf(pidfile, "%d\n", getpid())
FormatPid(n) ==
    (IF n < 0 THEN <<"-">> \o FormatNat(0 - n) ELSE FormatNat(n)) \o <<"\n">>

\* fread(buf, 1, sizeof(buf), pidfile) into the zeroed buffer
Fread(content) ==
    IF Len(content) <= PIDBUF THEN content ELSE SubSeq(content, 1, PIDBUF)

(***************************************************************************)
(* Processes of the host.                                                  *)
(***************************************************************************)
\* a process that lives throughout (not charon)
OtherLive == {1}
\* pids the kernel hands to the charon processes started
CharonPids == {7, 12}
\* the pid of the first charon process started
FirstPids == {7}

\* what a marker file may hold before the first start
InitialContents ==
    {<<"0", "\n">>}
        \cup {FormatPid(p) : p \in OtherLive \cup (CharonPids \ FirstPids)}

\* the marker when there is no file; a file fopen(PID_FILE, "w") creates is
\* readable and belongs to the (still privileged) process
NoMarker ==
    [exists |-> FALSE, content |-> <<>>, readable |-> TRUE, uid |-> "root",
     gid |-> "root"]

\* before the first start: no process ran before
NoPrev == [clean |-> FALSE, truncated |-> FALSE, unlinked |-> FALSE]

\* which calls of the process on the marker succeeded: fopen "w", fchown
\* and the write in check_pidfile(), ftruncate and unlink in
\* unlink_pidfile()
NoPidIO ==
    [created |-> FALSE, chowned |-> FALSE, written |-> FALSE,
     truncated |-> FALSE, unlinked |-> FALSE]

Ev(op, arg) == [op |-> op, arg |-> arg]

\* no fault signal was handled.  A fault is the signal, the thread it was
\* raised on and the thread id segv_handler() printed
NoFault == [sig |-> "none", thread |-> "none", printed |-> "none"]

VARIABLES
    pc,           \* position of the main thread in main()
    calls,        \* what this process has called or printed so far, in order
    status,       \* main()'s local status
    mypid,        \* getpid()
    marker,       \* the file PID_FILE
    pidfile,      \* the static FILE *pidfile: "null", "closed", "w"
    pidio,        \* which calls on the marker succeeded in this process
    prev,         \* how the process before this one ended
    uid, gid,     \* charon->uid, charon->gid
    euid, egid,   \* effective ids of the process
    caps,         \* TRUE while the process keeps its full capabilities
    use_syslog,   \* main()'s local
    levels,       \* main()'s local levels[]
    listeners,    \* the listeners registered on the bus, in order
    files,        \* logger configuration in the configuration files
    settings,     \* logger configuration lib->settings holds
    handlers,     \* signals with segv_handler installed
    mask,         \* signals blocked in the main thread
    workers,      \* <<>>, or <<the signal mask the worker threads inherited>>
    alerts,       \* the alerts published on the bus, in order
    lastsig,      \* the last result of sigwait(): a signal, "error" or "none"
    loaded,       \* load_files() in the last dispatch: "none", "ok", "failed"
    reloaded,     \* plugins->reload() was called in the last dispatch
    logged,       \* source lines of the DBG1 calls of the last dispatch
    struck,       \* "none", or the control signal delivered to a worker
    fopens,       \* the fopen() calls of initialize_loggers(), with results
    fault         \* NoFault, or the fault signal segv_handler() was run for

vars == <<pc, calls, status, mypid, marker, pidfile, pidio, prev,
          uid, gid, euid, egid, caps, use_syslog, levels, listeners, files,
          settings, handlers, mask, workers, alerts, lastsig,
          loaded, reloaded,
                   logged, struck, fopens, fault>>

\* the variables of one process that the steps before the logger setup and
\* the PID-file check leave alone
procRest == <<mypid, marker, pidfile, pidio, prev, uid, gid, euid,
              egid, caps, use_syslog, levels, listeners, files, settings,
              handlers, mask, workers, alerts, lastsig, loaded,
              reloaded,
                   logged, struck, fopens, fault>>

(***************************************************************************)
(* main(), lines 448-595: the statement that follows each step when the    *)
(* step succeeds.                                                          *)
(***************************************************************************)
\* Then with the worker pool started before the privileges are dropped
Then_StartBeforeDrop(step) ==
    CASE step = "library_init" -> "integrity"
      [] step = "integrity" -> "libhydra_init"
      [] step = "libhydra_init" -> "libcharon_init"
      [] step = "libcharon_init" -> "args"
      [] step = "args" -> "lookup_uid_gid"
      [] step = "lookup_uid_gid" -> "initialize_loggers"
      [] step = "initialize_loggers" -> "initialize"
      [] step = "initialize" -> "check_pidfile"
      [] step = "check_pidfile" -> "sigaction"
      [] step = "sigaction" -> "start"
      [] step = "start" -> "drop_capabilities"
      [] step = "drop_capabilities" -> "run"
      [] step = "run" -> "unlink_pidfile"

Then(step) ==
    CASE step = "library_init" -> "integrity"
      [] step = "integrity" -> "libhydra_init"
      [] step = "libhydra_init" -> "libcharon_init"
      [] step = "libcharon_init" -> "args"
      [] step = "args" -> "lookup_uid_gid"
      [] step = "lookup_uid_gid" -> "initialize_loggers"
      [] step = "initialize_loggers" -> "initialize"
      [] step = "initialize" -> "check_pidfile"
      [] step = "check_pidfile" -> "drop_capabilities"
      [] step = "drop_capabilities" -> "sigaction"
      [] step = "sigaction" -> "start"
      [] step = "start" -> "run"
      [] step = "run" -> "unlink_pidfile"

(***************************************************************************)
(* main(), lines 448-475: the library chain.                               *)
(***************************************************************************)
\* the status a parent process reads: the low eight bits of what main()
\* returns or exit() is given
ExitByte(code) == code % 256

Exit(code, evs) ==
    /\ pc' = "exited"
    /\ status' = code
    /\ calls' = calls \o evs \o <<Ev("exit", code)>>

\* what library_init() prints before it answers FALSE
LibraryInitDiagnostic == <<Ev("dbg_lib", 0)>>

\* main() 449-453
LibraryInit ==
    /\ pc = "library_init"
    /\ \E ok \in BOOLEAN :
         IF ok
         THEN /\ pc' = Then("library_init")
              /\ calls' = Append(calls, Ev("library_init", 1))
              /\ status' = status
         ELSE Exit(SS_RC_LIBSTRONGSWAN_INTEGRITY,
                   <<Ev("library_init", 0)>> \o LibraryInitDiagnostic
                       \o <<Ev("library_deinit", 0)>>)
    /\ UNCHANGED procRest

\* main() 455-461; lib->integrity is NULL when no integrity test is configured
IntegrityCheck ==
    /\ pc = "integrity"
    /\ \E tester \in BOOLEAN, ok \in BOOLEAN :
         IF tester /\ ~ok
         THEN Exit(SS_RC_DAEMON_INTEGRITY,
                   <<Ev("check_file", 0), Ev("dbg_stderr", 458),
                     Ev("library_deinit", 0)>>)
         ELSE /\ pc' = Then("integrity")
              /\ UNCHANGED <<calls, status>>
    /\ UNCHANGED procRest

\* main() 463-469
LibhydraInit ==
    /\ pc = "libhydra_init"
    /\ \E ok \in BOOLEAN :
         IF ok
         THEN /\ pc' = Then("libhydra_init")
              /\ calls' = Append(calls, Ev("libhydra_init", 1))
              /\ status' = status
         ELSE Exit(SS_RC_INITIALIZATION_FAILED,
                   <<Ev("libhydra_init", 0), Ev("dbg_stderr", 465),
                     Ev("libhydra_deinit", 0), Ev("library_deinit", 0)>>)
    /\ UNCHANGED procRest

\* goto deinit with the given status, after the calls evs
GotoDeinit(code, evs) ==
    /\ pc' = "deinit"
    /\ status' = code
    /\ calls' = calls \o evs

\* LibcharonInit without the line printed when libcharon_init() fails
LibcharonInit_Silent ==
    /\ pc = "libcharon_init"
    /\ \E ok \in BOOLEAN :
         IF ok
         THEN /\ pc' = Then("libcharon_init")
              /\ calls' = Append(calls, Ev("libcharon_init", 1))
              /\ status' = status
         ELSE GotoDeinit(status, <<Ev("libcharon_init", 0)>>)
    /\ UNCHANGED procRest

\* main() 471-475
LibcharonInit ==
    /\ pc = "libcharon_init"
    /\ \E ok \in BOOLEAN :
         IF ok
         THEN /\ pc' = Then("libcharon_init")
              /\ calls' = Append(calls, Ev("libcharon_init", 1))
              /\ status' = status
         ELSE GotoDeinit(status,
                         <<Ev("libcharon_init", 0), Ev("dbg_stderr", 473)>>)
    /\ UNCHANGED procRest

(***************************************************************************)
(* main(), lines 477-534: the command line.                                *)
(***************************************************************************)
\* levels the model passes to --debug-<type>, as the text of optarg
CmdLevelTexts == {<<"2">>}

\* what getopt_long() returns for one argument: 'h', 'v', 'l', 0 with group
\* set ("d"), or '?' for an option it does not know
Options ==
    {[k |-> x, g |-> 0, optarg |-> <<>>] : x \in {"h", "v", "l", "?"}}
        \cup {[k |-> "d", g |-> gr, optarg |-> t] :
                  gr \in Groups, t \in CmdLevelTexts}

Argvs == UNION {[1 .. n -> Options] : n \in 0 .. MaxArgs}

\* the for (;;) loop of main() 484-534 from argument i on; st is
\* [use_syslog, levels]; the result adds how the loop ended
RECURSIVE HandleArgs(_, _, _)
HandleArgs(argv, i, st) ==
    IF i > Len(argv)
    THEN [end |-> "EOF", use_syslog |-> st.use_syslog, levels |-> st.levels]
    ELSE LET o == argv[i] IN
         CASE o.k = "h" ->
                [end |-> "help", use_syslog |-> st.use_syslog,
                 levels |-> st.levels]
           [] o.k = "v" ->
                [end |-> "version", use_syslog |-> st.use_syslog,
                 levels |-> st.levels]
           [] o.k = "l" ->
                HandleArgs(argv, i + 1,
                           [use_syslog |-> TRUE, levels |-> st.levels])
           [] o.k = "d" ->
                HandleArgs(argv, i + 1,
                           [use_syslog |-> st.use_syslog,
                            levels |-> [st.levels EXCEPT
                                          ![o.g] = Atoi(o.optarg)]])
           [] OTHER ->
                [end |-> "usage", use_syslog |-> st.use_syslog,
                 levels |-> st.levels]

\* main() 477-534
Arguments ==
    /\ pc = "args"
    /\ \E argv \in Argvs :
         LET r == HandleArgs(argv, 1,
                             [use_syslog |-> FALSE,
                              levels |-> [g \in Groups |-> LEVEL_CTRL]])
         IN  /\ use_syslog' = r.use_syslog
             /\ levels' = r.levels
             /\ CASE r.end = "help" -> GotoDeinit(0, <<Ev("usage", 0)>>)
                  [] r.end = "version" -> GotoDeinit(0, <<Ev("version", 0)>>)
                  [] r.end = "usage" -> GotoDeinit(1, <<Ev("usage", 1)>>)
                  [] OTHER -> /\ pc' = Then("args")
                              /\ UNCHANGED <<status, calls>>
    /\ UNCHANGED <<mypid, marker, pidfile, pidio, prev, uid, gid,
                   euid, egid, caps, listeners, files, settings, handlers,
                   mask, workers, alerts, lastsig, loaded,
                   reloaded,
                   logged, struck, fopens, fault>>

(***************************************************************************)
(* lookup_uid_gid(), lines 175-209, and main() 536-540.                    *)
(***************************************************************************)
LookupUidGid ==
    /\ pc = "lookup_uid_gid"
    /\ \E user \in BOOLEAN, group \in BOOLEAN :
         \* getpwnam_r(IPSEC_USER) found the user; getgrnam_r(IPSEC_GROUP)
         \* found the group (asked only when the user was found)
         IF ~user
         THEN /\ GotoDeinit(status,
                            <<Ev("lookup_uid_gid", 0), Ev("DBG1", 185),
                              Ev("dbg_stderr", 538)>>)
              /\ UNCHANGED <<uid, gid>>
         ELSE IF ~group
         THEN /\ GotoDeinit(status,
                            <<Ev("lookup_uid_gid", 0), Ev("DBG1", 199),
                              Ev("dbg_stderr", 538)>>)
              /\ uid' = "ipsec"
              /\ gid' = gid
         ELSE /\ pc' = Then("lookup_uid_gid")
              /\ uid' = "ipsec"
              /\ gid' = "ipsec"
              /\ calls' = Append(calls, Ev("lookup_uid_gid", 1))
              /\ status' = status
    /\ UNCHANGED <<mypid, marker, pidfile, pidio, prev, euid, egid,
                   caps, use_syslog, levels, listeners, files, settings,
                   handlers, mask, workers, alerts, lastsig,
                   loaded, reloaded,
                   logged, struck, fopens, fault>>

(***************************************************************************)
(* The logger configuration (the charon.syslog and charon.filelog sections *)
(* of lib->settings) and initialize_loggers(), lines 288-412.              *)
(*                                                                         *)
(* A key that may be absent is a set: {} when absent, {v} when set to v.   *)
(***************************************************************************)
\* settings->get_int() and settings->get_bool(): the value, else the default
GetVal(opt, dflt) == IF opt = {} THEN dflt ELSE CHOOSE v \in opt : TRUE

NoOverride == [g \in Groups |-> {}]

SyslogSection(name, def, over) ==
    [name |-> name, ike_name |-> {}, def |-> def, over |-> over]

FilelogSection(name, append, flush, def, over) ==
    [name |-> name, ike_name |-> {}, append |-> append, flush_line |-> flush,
     def |-> def, over |-> over]

LogPath == "/var/log/charon.log"

\* the configurations the model starts from and the files are edited to
Configs ==
    { [syslog |-> <<>>, filelog |-> <<>>],
      [syslog |-> <<SyslogSection("daemon", {LEVEL_DIAG},
                                  [g \in Groups |->
                                     IF g = 0 THEN {LEVEL_AUDIT} ELSE {}]),
                     SyslogSection("auth", {}, NoOverride)>>,
       filelog |-> <<FilelogSection("stderr", {FALSE}, {TRUE}, {}, NoOverride),
                      FilelogSection(LogPath, {FALSE}, {TRUE}, {LEVEL_DIAG},
                                     NoOverride)>>]
    }

LogPath2 == "/var/log/charon-ike.log"

\* values of the keys of a section: absent, or set
LevelDefaults == {{}, {LEVEL_DIAG}}
LevelOverrides == [Groups -> {{}, {LEVEL_AUDIT}}]
BoolKeys == {{}, {TRUE}, {FALSE}}

\* configurations that vary the level keys: at most one syslog section
\* (daemon, auth or a facility the code does not know) and at most one
\* filelog section
LevelConfigs ==
    {[syslog |-> s, filelog |-> f] :
        s \in {<<>>} \cup
               {<<SyslogSection(n, d, o)>> :
                   n \in {"daemon", "auth", "local0"}, d \in LevelDefaults,
                   o \in LevelOverrides},
        f \in {<<>>} \cup
               {<<FilelogSection(n, {}, {}, d, o)>> :
                   n \in {"stderr", LogPath}, d \in LevelDefaults,
                   o \in LevelOverrides}}

\* filelog sections that vary the name and the append and flush_line keys
FileSections ==
    {FilelogSection(n, ap, fl, {}, NoOverride) :
        n \in {"stderr", "stdout", LogPath, LogPath2}, ap \in BoolKeys,
        fl \in BoolKeys}

\* configurations that vary the files: one or two filelog sections of
\* different names, after no or one syslog section
FileConfigs ==
    {[syslog |-> s, filelog |-> f] :
        s \in {<<>>, <<SyslogSection("daemon", {}, NoOverride)>>},
        f \in {<<x>> : x \in FileSections} \cup
               {q \in FileSections \X FileSections : q[1].name # q[2].name}}

\* the configurations initialize_loggers() is checked on
LogConfigs == LevelConfigs \cup FileConfigs

\* the paths named by the filelog sections of a configuration
Paths(cfg) ==
    {cfg.filelog[i].name : i \in 1 .. Len(cfg.filelog)} \ {"stderr", "stdout"}

\* sys_logger_create() and file_logger_create() start with every group silent
NewLoggerLevels == [g \in Groups |-> LEVEL_SILENT]

\* SectionLevels with the default of the section taken before the
\* override of the group
SectionLevels_DefaultWins(sec) ==
    [g \in Groups |->
        IF sec.def # {} THEN GetVal(sec.def, 1) ELSE GetVal(sec.over[g], 1)]

\* the set_level() loop, lines 321-329 and 371-379
SectionLevels(sec) ==
    LET def == GetVal(sec.def, 1)
    IN  [g \in Groups |-> GetVal(sec.over[g], def)]

\* one pass of the loop over charon.syslog, lines 303-332: the listeners
\* it registers (none for a facility that is neither daemon nor auth)
SysLogger(sec) ==
    IF sec.name = "daemon"
    THEN <<[kind |-> "sys", target |-> "LOG_DAEMON", mode |-> "-",
            linebuf |-> FALSE, ike_name |-> GetVal(sec.ike_name, FALSE),
            levels |-> SectionLevels(sec)]>>
    ELSE IF sec.name = "auth"
    THEN <<[kind |-> "sys", target |-> "LOG_AUTHPRIV", mode |-> "-",
            linebuf |-> FALSE, ike_name |-> GetVal(sec.ike_name, FALSE),
            levels |-> SectionLevels(sec)]>>
    ELSE <<>>

\* FileLogger with flush_line read and applied for the standard streams too
FileLogger_FlushStd(sec, openable) ==
    IF sec.name \notin {"stderr", "stdout"} \cup openable
    THEN <<>>
    ELSE <<[kind |-> "file", target |-> sec.name,
            mode |-> IF sec.name \in {"stderr", "stdout"} THEN "-"
                     ELSE IF GetVal(sec.append, TRUE) THEN "a" ELSE "w",
            linebuf |-> GetVal(sec.flush_line, FALSE),
            ike_name |-> GetVal(sec.ike_name, FALSE),
            levels |-> SectionLevels(sec)]>>

\* one pass of the loop over charon.filelog, lines 338-383; openable is the
\* set of paths fopen() succeeds on
FileLogger(sec, openable) ==
    IF sec.name \in {"stderr", "stdout"}
    THEN <<[kind |-> "file", target |-> sec.name, mode |-> "-",
            linebuf |-> FALSE, ike_name |-> GetVal(sec.ike_name, FALSE),
            levels |-> SectionLevels(sec)]>>
    ELSE IF sec.name \notin openable
    THEN <<>>
    ELSE <<[kind |-> "file", target |-> sec.name,
            mode |-> IF GetVal(sec.append, TRUE) THEN "a" ELSE "w",
            linebuf |-> GetVal(sec.flush_line, FALSE),
            ike_name |-> GetVal(sec.ike_name, FALSE),
            levels |-> SectionLevels(sec)]>>

RECURSIVE SysLoggers(_, _)
SysLoggers(secs, i) ==
    IF i > Len(secs) THEN <<>>
    ELSE SysLogger(secs[i]) \o SysLoggers(secs, i + 1)

\* FileLoggers with the loop left at the first fopen() that fails
RECURSIVE FileLoggers_StopAtFailure(_, _, _)
FileLoggers_StopAtFailure(secs, i, openable) ==
    IF i > Len(secs) THEN <<>>
    ELSE IF secs[i].name \notin {"stderr", "stdout"} \cup openable
    THEN <<>>
    ELSE FileLogger(secs[i], openable)
           \o FileLoggers_StopAtFailure(secs, i + 1, openable)

RECURSIVE FileLoggers(_, _, _)
FileLoggers(secs, i, openable) ==
    IF i > Len(secs) THEN <<>>
    ELSE FileLogger(secs[i], openable) \o FileLoggers(secs, i + 1, openable)

\* set_level(logger, DBG_ANY, level): DBG_ANY stands for all groups
SetLevelAny(level) == [g \in Groups |-> level]

\* DefaultLoggers with the auth logger given the levels of the command line
DefaultLoggers_AuthFollowsLevels(use_stderr, lv) ==
    <<[kind |-> "file", target |-> "stdout", mode |-> "-", linebuf |-> FALSE,
       ike_name |-> FALSE,
       levels |-> IF use_stderr THEN lv ELSE NewLoggerLevels],
      [kind |-> "sys", target |-> "LOG_DAEMON", mode |-> "-",
       linebuf |-> FALSE, ike_name |-> FALSE, levels |-> lv],
      [kind |-> "sys", target |-> "LOG_AUTHPRIV", mode |-> "-",
       linebuf |-> FALSE, ike_name |-> FALSE, levels |-> lv]>>

\* the legacy default loggers, lines 387-411, in the order add_listener()
\* is called
DefaultLoggers(use_stderr, lv) ==
    <<[kind |-> "file", target |-> "stdout", mode |-> "-", linebuf |-> FALSE,
       ike_name |-> FALSE,
       levels |-> IF use_stderr THEN lv ELSE NewLoggerLevels],
      [kind |-> "sys", target |-> "LOG_DAEMON", mode |-> "-",
       linebuf |-> FALSE, ike_name |-> FALSE, levels |-> lv],
      [kind |-> "sys", target |-> "LOG_AUTHPRIV", mode |-> "-",
       linebuf |-> FALSE, ike_name |-> FALSE,
       levels |-> SetLevelAny(LEVEL_AUDIT)]>>

\* InitializeLoggersResult with loggers_defined counting the listeners that
\* were built instead of the sections that were enumerated
InitializeLoggersResult_CountsListeners(cfg, use_stderr, lv, openable) ==
    LET built == SysLoggers(cfg.syslog, 1)
                   \o FileLoggers(cfg.filelog, 1, openable)
    IN  built \o (IF Len(built) = 0 THEN DefaultLoggers(use_stderr, lv)
                  ELSE <<>>)

\* initialize_loggers(use_stderr, levels): the listeners added to the bus
InitializeLoggersResult(cfg, use_stderr, lv, openable) ==
    LET loggers_defined == Len(cfg.syslog) + Len(cfg.filelog)
    IN  SysLoggers(cfg.syslog, 1) \o FileLoggers(cfg.filelog, 1, openable)
          \o (IF loggers_defined = 0 THEN DefaultLoggers(use_stderr, lv)
              ELSE <<>>)

\* the DBG1 lines of failed fopen() calls, line 356
RECURSIVE OpenFailures(_, _, _)
OpenFailures(secs, i, openable) ==
    IF i > Len(secs) THEN <<>>
    ELSE (IF secs[i].name \notin {"stderr", "stdout"} \cup openable
          THEN <<Ev("DBG1", 356)>> ELSE <<>>)
           \o OpenFailures(secs, i + 1, openable)

\* the fopen() calls of line 353: one for every filelog section that is not
\* a standard stream, in the mode the append key selects
FopenCalls(secs, openable) ==
    {[path |-> secs[i].name,
      mode |-> IF GetVal(secs[i].append, TRUE) THEN "a" ELSE "w",
      ok |-> secs[i].name \in openable] :
        i \in {j \in 1 .. Len(secs) : secs[j].name \notin {"stderr", "stdout"}}}

\* main() 542
InitializeLoggers ==
    /\ pc = "initialize_loggers"
    /\ \E openable \in SUBSET Paths(settings) :
         /\ listeners' = listeners \o
               InitializeLoggersResult(settings, ~use_syslog, levels, openable)
         /\ calls' = calls \o OpenFailures(settings.filelog, 1, openable)
         /\ fopens' = FopenCalls(settings.filelog, openable)
    /\ pc' = Then("initialize_loggers")
    /\ UNCHANGED <<status, mypid, marker, pidfile, pidio, prev,
                   uid, gid, euid, egid, caps, use_syslog, levels, files,
                   settings, handlers, mask, workers, alerts,
                   lastsig, loaded, reloaded,
                   logged, struck, fault>>

\* DaemonInitialize with status cleared before the jump to deinit
DaemonInitialize_StatusZero ==
    /\ pc = "initialize"
    /\ \E ok \in BOOLEAN :
         IF ok
         THEN /\ pc' = Then("initialize")
              /\ calls' = Append(calls, Ev("initialize", 1))
              /\ status' = status
         ELSE GotoDeinit(0, <<Ev("initialize", 0), Ev("DBG1", 547)>>)
    /\ UNCHANGED procRest

\* main() 544-549
DaemonInitialize ==
    /\ pc = "initialize"
    /\ \E ok \in BOOLEAN :
         IF ok
         THEN /\ pc' = Then("initialize")
              /\ calls' = Append(calls, Ev("initialize", 1))
              /\ status' = status
         ELSE GotoDeinit(status, <<Ev("initialize", 0), Ev("DBG1", 547)>>)
    /\ UNCHANGED procRest

(***************************************************************************)
(* check_pidfile(), lines 230-266, and main() 551-556.                     *)
(***************************************************************************)
\* kill(pid, 0) == 0: a process with that pid exists
Kill(pid, self) == pid \in OtherLive \cup {self}

\* the pid check_pidfile() reads from marker m, lines 236-247: 0 when the
\* file cannot be opened or nothing is read
ReadPid(m) ==
    LET buf == Fread(m.content)
    IN  IF m.readable /\ Len(buf) > 0 THEN Atoi(buf) ELSE 0

\* CheckPidfileResult with the stale marker removed before the liveness
\* probe is looked at
CheckPidfileResult_UnlinkFirst(m, self, u, g, env) ==
    LET pid == ReadPid(m)
        alive == m.exists /\ m.readable /\ pid # 0 /\ Kill(pid, self)
        m1 == IF m.exists /\ env.unlinkOK THEN NoMarker ELSE m
        m2 == [m1 EXCEPT !.exists = TRUE, !.content = <<>>]
        m3 == IF env.chownOK THEN [m2 EXCEPT !.uid = u, !.gid = g] ELSE m2
        m4 == IF env.writeOK THEN [m3 EXCEPT !.content = FormatPid(self)]
              ELSE m3
    IN  IF alive
        THEN [running |-> TRUE, marker |-> m1, pidfile |-> "closed",
              log |-> <<>>, io |-> NoPidIO]
        ELSE [running |-> FALSE,
              marker |-> IF env.createOK THEN m4 ELSE m1,
              pidfile |-> IF env.createOK THEN "w" ELSE "null",
              log |-> IF m.exists THEN <<Ev("DBG1", 253)>> ELSE <<>>,
              io |-> [NoPidIO EXCEPT
                        !.created = env.createOK,
                        !.chowned = env.createOK /\ env.chownOK,
                        !.written = env.createOK /\ env.writeOK]]

\* CheckPidfileResult with the new marker opened in mode "a": what an
\* undeleted stale marker holds stays in front of the new pid
CheckPidfileResult_Append(m, self, u, g, env) ==
    LET pid == ReadPid(m)
        alive == m.exists /\ m.readable /\ pid # 0 /\ Kill(pid, self)
        m1 == IF m.exists /\ env.unlinkOK THEN NoMarker ELSE m
        m2 == [m1 EXCEPT !.exists = TRUE]
        m3 == IF env.chownOK THEN [m2 EXCEPT !.uid = u, !.gid = g] ELSE m2
        m4 == IF env.writeOK
              THEN [m3 EXCEPT !.content = m1.content \o FormatPid(self)]
              ELSE m3
    IN  IF alive
        THEN [running |-> TRUE, marker |-> m, pidfile |-> "closed",
              log |-> <<>>, io |-> NoPidIO]
        ELSE [running |-> FALSE,
              marker |-> IF env.createOK THEN m4 ELSE m1,
              pidfile |-> IF env.createOK THEN "w" ELSE "null",
              log |-> IF m.exists THEN <<Ev("DBG1", 253)>> ELSE <<>>,
              io |-> [NoPidIO EXCEPT
                        !.created = env.createOK,
                        !.chowned = env.createOK /\ env.chownOK,
                        !.written = env.createOK /\ env.writeOK]]

\* CheckPidfileResult answering TRUE when the new marker cannot be created
CheckPidfileResult_CreateFailRunning(m, self, u, g, env) ==
    LET pid == ReadPid(m)
        alive == m.exists /\ m.readable /\ pid # 0 /\ Kill(pid, self)
        m1 == IF m.exists /\ env.unlinkOK THEN NoMarker ELSE m
        m2 == [m1 EXCEPT !.exists = TRUE, !.content = <<>>]
        m3 == IF env.chownOK THEN [m2 EXCEPT !.uid = u, !.gid = g] ELSE m2
        m4 == IF env.writeOK THEN [m3 EXCEPT !.content = FormatPid(self)]
              ELSE m3
    IN  IF alive
        THEN [running |-> TRUE, marker |-> m, pidfile |-> "closed",
              log |-> <<>>, io |-> NoPidIO]
        ELSE [running |-> ~env.createOK,
              marker |-> IF env.createOK THEN m4 ELSE m1,
              pidfile |-> IF env.createOK THEN "w" ELSE "null",
              log |-> IF m.exists THEN <<Ev("DBG1", 253)>> ELSE <<>>,
              io |-> [NoPidIO EXCEPT
                        !.created = env.createOK,
                        !.chowned = env.createOK /\ env.chownOK,
                        !.written = env.createOK /\ env.writeOK]]

\* check_pidfile() on marker m in process self with charon's ids u and g.
\* env gives the results of the calls: unlinkOK (unlink), createOK (fopen
\* "w"), chownOK (fchown), writeOK (fprintf and fflush, whose results the
\* code does not look at).  Result:
\* running (the return value), the marker and the static pidfile
\* afterwards, the lines logged, and which of the calls on the new marker
\* succeeded.
CheckPidfileResult(m, self, u, g, env) ==
    LET pid == ReadPid(m)
        alive == m.exists /\ m.readable /\ pid # 0 /\ Kill(pid, self)
        \* after lines 253-254
        m1 == IF m.exists /\ env.unlinkOK THEN NoMarker ELSE m
        \* after fopen(PID_FILE, "w"): created if absent, truncated
        m2 == [m1 EXCEPT !.exists = TRUE, !.content = <<>>]
        m3 == IF env.chownOK THEN [m2 EXCEPT !.uid = u, !.gid = g] ELSE m2
        \* after fprintf() and fflush()
        m4 == IF env.writeOK THEN [m3 EXCEPT !.content = FormatPid(self)]
              ELSE m3
    IN  IF alive
        THEN [running |-> TRUE, marker |-> m, pidfile |-> "closed",
              log |-> <<>>, io |-> NoPidIO]
        ELSE [running |-> FALSE,
              marker |-> IF env.createOK THEN m4 ELSE m1,
              pidfile |-> IF env.createOK THEN "w" ELSE "null",
              log |-> IF m.exists THEN <<Ev("DBG1", 253)>> ELSE <<>>,
              io |-> [NoPidIO EXCEPT
                        !.created = env.createOK,
                        !.chowned = env.createOK /\ env.chownOK,
                        !.written = env.createOK /\ env.writeOK]]

PidfileEnvs ==
    [unlinkOK : BOOLEAN, createOK : BOOLEAN, chownOK : BOOLEAN,
     writeOK : BOOLEAN]

\* main() 551-556
CheckPidfile ==
    /\ pc = "check_pidfile"
    /\ \E env \in PidfileEnvs :
         LET r == CheckPidfileResult(marker, mypid, uid, gid, env)
         IN  /\ marker' = r.marker
             /\ pidfile' = r.pidfile
             /\ pidio' = r.io
             /\ IF r.running
                THEN GotoDeinit(0 - 1,
                                r.log \o <<Ev("check_pidfile", 1),
                                           Ev("DBG1", 553)>>)
                ELSE /\ pc' = Then("check_pidfile")
                     /\ calls' = calls \o r.log
                                    \o <<Ev("check_pidfile", 0)>>
                     /\ status' = status
    /\ UNCHANGED <<mypid, prev, uid, gid, euid, egid, caps,
                   use_syslog, levels, listeners, files, settings, handlers,
                   mask, workers, alerts, lastsig, loaded,
                   reloaded,
                   logged, struck, fopens, fault>>

(***************************************************************************)
(* drop_capabilities(), lines 148-170, and main() 558-562.                 *)
(***************************************************************************)
\* DropCapabilitiesResult with the return after a failed setuid() missing
DropCapabilitiesResult_IgnoreSetuid(okg, oku, okc) ==
    IF ~okg
    THEN [ok |-> FALSE, group |-> FALSE, user |-> FALSE, capab |-> FALSE,
          calls |-> <<Ev("setgid", 0), Ev("DBG1", 156)>>]
    ELSE IF ~okc
    THEN [ok |-> FALSE, group |-> TRUE, user |-> oku, capab |-> FALSE,
          calls |-> <<Ev("setgid", 1), Ev("setuid", IF oku THEN 1 ELSE 0),
                      Ev("drop_capabilities", 0), Ev("DBG1", 166)>>]
    ELSE [ok |-> TRUE, group |-> TRUE, user |-> oku, capab |-> TRUE,
          calls |-> <<Ev("setgid", 1), Ev("setuid", IF oku THEN 1 ELSE 0),
                      Ev("drop_capabilities", 1)>>]

\* DropCapabilitiesResult with the user switched before the group
DropCapabilitiesResult_UserFirst(okg, oku, okc) ==
    IF ~oku
    THEN [ok |-> FALSE, group |-> FALSE, user |-> FALSE, capab |-> FALSE,
          calls |-> <<Ev("setuid", 0), Ev("DBG1", 161)>>]
    ELSE IF ~okg
    THEN [ok |-> FALSE, group |-> FALSE, user |-> TRUE, capab |-> FALSE,
          calls |-> <<Ev("setuid", 1), Ev("setgid", 0), Ev("DBG1", 156)>>]
    ELSE IF ~okc
    THEN [ok |-> FALSE, group |-> TRUE, user |-> TRUE, capab |-> FALSE,
          calls |-> <<Ev("setuid", 1), Ev("setgid", 1),
                      Ev("drop_capabilities", 0), Ev("DBG1", 166)>>]
    ELSE [ok |-> TRUE, group |-> TRUE, user |-> TRUE, capab |-> TRUE,
          calls |-> <<Ev("setuid", 1), Ev("setgid", 1),
                      Ev("drop_capabilities", 1)>>]

\* drop_capabilities() when setgid(), setuid() and charon->drop_capabilities()
\* would answer okg, oku and okc: the return value, the calls made in order
\* and which of the three took effect
DropCapabilitiesResult(okg, oku, okc) ==
    IF ~okg
    THEN [ok |-> FALSE, group |-> FALSE, user |-> FALSE, capab |-> FALSE,
          calls |-> <<Ev("setgid", 0), Ev("DBG1", 156)>>]
    ELSE IF ~oku
    THEN [ok |-> FALSE, group |-> TRUE, user |-> FALSE, capab |-> FALSE,
          calls |-> <<Ev("setgid", 1), Ev("setuid", 0), Ev("DBG1", 161)>>]
    ELSE IF ~okc
    THEN [ok |-> FALSE, group |-> TRUE, user |-> TRUE, capab |-> FALSE,
          calls |-> <<Ev("setgid", 1), Ev("setuid", 1),
                      Ev("drop_capabilities", 0), Ev("DBG1", 166)>>]
    ELSE [ok |-> TRUE, group |-> TRUE, user |-> TRUE, capab |-> TRUE,
          calls |-> <<Ev("setgid", 1), Ev("setuid", 1),
                      Ev("drop_capabilities", 1)>>]

\* main() 558-562
DropCapabilities ==
    /\ pc = "drop_capabilities"
    /\ \E okg \in BOOLEAN, oku \in BOOLEAN, okc \in BOOLEAN :
         LET r == DropCapabilitiesResult(okg, oku, okc)
         IN  /\ egid' = IF r.group THEN gid ELSE egid
             /\ euid' = IF r.user THEN uid ELSE euid
             /\ caps' = IF r.capab THEN FALSE ELSE caps
             /\ IF r.ok
                THEN /\ pc' = Then("drop_capabilities")
                     /\ calls' = calls \o <<Ev("drop_privileges", 0)>>
                                    \o r.calls
                     /\ status' = status
                ELSE GotoDeinit(status,
                                <<Ev("drop_privileges", 0)>> \o r.calls
                                  \o <<Ev("DBG1", 560)>>)
    /\ UNCHANGED <<mypid, marker, pidfile, pidio, prev, uid, gid,
                   use_syslog, levels, listeners, files, settings, handlers,
                   mask, workers, alerts, lastsig, loaded,
                   reloaded,
                   logged, struck, fopens, fault>>

(***************************************************************************)
(* main() 564-584: handlers, signal mask, worker start.                    *)
(***************************************************************************)
ControlSignals == {"SIGINT", "SIGTERM", "SIGHUP"}

\* InstallHandlers with the pthread_sigmask() of line 578 left out
InstallHandlers_NoMask ==
    /\ pc = "sigaction"
    /\ handlers' = {"SIGSEGV", "SIGILL", "SIGBUS"}
    /\ mask' = mask
    /\ pc' = Then("sigaction")
    /\ UNCHANGED <<calls, status, mypid, marker, pidfile, pidio,
                   prev, uid, gid, euid, egid, caps, use_syslog, levels,
                   listeners, files, settings, workers, alerts,
                   lastsig, loaded, reloaded,
                   logged, struck, fopens, fault>>

\* main() 564-578
InstallHandlers ==
    /\ pc = "sigaction"
    /\ handlers' = {"SIGSEGV", "SIGILL", "SIGBUS"}
    /\ mask' = ControlSignals
    /\ pc' = Then("sigaction")
    /\ UNCHANGED <<calls, status, mypid, marker, pidfile, pidio,
                   prev, uid, gid, euid, egid, caps, use_syslog, levels,
                   listeners, files, settings, workers, alerts,
                   lastsig, loaded, reloaded,
                   logged, struck, fopens, fault>>

\* the signal masks of the threads charon->start() creates: the threads of
\* the pool are created by the thread that calls start() and start with
\* its mask, which they do not change
WorkerMasks(m) == <<m>>

\* main() 580-581
Start ==
    /\ pc = "start"
    /\ workers' = WorkerMasks(mask)
    /\ calls' = Append(calls, Ev("start", 0))
    /\ pc' = Then("start")
    /\ UNCHANGED <<status, mypid, marker, pidfile, pidio, prev,
                   uid, gid, euid, egid, caps, use_syslog, levels, listeners,
                   files, settings, handlers, mask, alerts,
                   lastsig, loaded, reloaded,
                   logged, struck, fopens, fault>>

(***************************************************************************)
(* run(), lines 86-143.                                                    *)
(***************************************************************************)
\* run() 88-95
RunEnter ==
    /\ pc = "run"
    /\ mask' = mask \cup ControlSignals
    /\ pc' = "sigwait"
    /\ UNCHANGED <<calls, status, mypid, marker, pidfile, pidio,
                   prev, uid, gid, euid, egid, caps, use_syslog, levels,
                   listeners, files, settings, handlers, workers, alerts, lastsig, loaded, reloaded,
                   logged, struck, fopens, fault>>

loopFrame == <<status, mypid, marker, pidfile, pidio, prev, uid,
               gid, euid, egid, caps, use_syslog, levels, handlers, mask,
               workers, fopens, fault>>

\* run() 102-107: sigwait() fails
SigwaitError ==
    /\ pc = "sigwait"
    /\ lastsig' = "error"
    /\ loaded' = "none"
    /\ reloaded' = FALSE
    /\ calls' = calls \o <<Ev("DBG1", 105), Ev("run_return", 0)>>
    /\ logged' = <<105>>
    /\ pc' = Then("run")
    /\ UNCHANGED loopFrame
    /\ UNCHANGED <<listeners, files, settings, alerts, struck>>

\* the threads a signal sent to the process may be given to: the control
\* thread, which waits for it in sigwait() (run() 102), and every thread
\* that does not block it; wmasks holds the masks of the worker threads
Receivers(sig, wmasks) ==
    {"control"} \cup
        {"worker" : i \in {j \in 1 .. Len(wmasks) : sig \notin wmasks[j]}}

\* a control signal is given to a worker thread: no handler is installed
\* for it, its default action ends the process
Strike(sig) ==
    /\ pc' = "killed"
    /\ struck' = sig
    /\ UNCHANGED <<calls, listeners, files, settings, alerts, lastsig,
                   loaded, reloaded, logged>>

\* settings->load_files(settings, NULL, FALSE): on success the settings are
\* what the files hold, on failure they stay as they were
LoadFiles(old, onDisk, ok) == IF ok THEN onDisk ELSE old

\* HandleSighup with plugins->reload() called whatever load_files() answers
HandleSighup_ReloadAlways(ok, cur, onDisk, ls, published) ==
    [settings |-> LoadFiles(cur, onDisk, ok),
     loaded |-> IF ok THEN "ok" ELSE "failed",
     reloaded |-> TRUE,
     listeners |-> ls,
     alerts |-> published,
     pc |-> "sigwait"]

\* HandleSighup with the loggers set up again from the settings read
HandleSighup_ReinitLoggers(ok, cur, onDisk, ls, published) ==
    [settings |-> LoadFiles(cur, onDisk, ok),
     loaded |-> IF ok THEN "ok" ELSE "failed",
     reloaded |-> ok,
     listeners |-> IF ok
                   THEN ls \o InitializeLoggersResult(
                                 onDisk, TRUE, [g \in Groups |-> LEVEL_CTRL],
                                 Paths(onDisk))
                   ELSE ls,
     alerts |-> published,
     pc |-> "sigwait"]

\* run() 110-123, case SIGHUP, when load_files() answers ok, with the
\* settings cur, the files onDisk, the listeners ls and the alerts published:
\* the settings afterwards, whether plugins->reload() was called, the
\* listeners on the bus and the alerts
HandleSighup(ok, cur, onDisk, ls, published) ==
    [settings |-> LoadFiles(cur, onDisk, ok),
     loaded |-> IF ok THEN "ok" ELSE "failed",
     reloaded |-> ok,
     listeners |-> ls,
     alerts |-> published,
     pc |-> "sigwait"]

Sighup ==
    /\ pc = "sigwait"
    /\ \E rcv \in Receivers("SIGHUP", workers), ok \in BOOLEAN :
         IF rcv = "control"
         THEN LET r == HandleSighup(ok, settings, files, listeners, alerts)
              IN  /\ settings' = r.settings
                  /\ loaded' = r.loaded
                  /\ reloaded' = r.reloaded
                  /\ listeners' = r.listeners
                  /\ alerts' = r.alerts
                  /\ pc' = r.pc
                  /\ logged' = IF r.loaded = "ok" THEN <<112>>
                                                  ELSE <<112, 120>>
                  /\ lastsig' = "SIGHUP"
                  /\ UNCHANGED <<calls, files, struck>>
         ELSE Strike("SIGHUP")
    /\ UNCHANGED loopFrame

\* HandleShutdown with the call of bus->alert() left out
HandleShutdown_NoAlert(sig, published) ==
    [alerts |-> published,
     calls |-> <<Ev("DBG1", IF sig = "SIGINT" THEN 126 ELSE 132),
                 Ev("run_return", 0)>>,
     pc |-> Then("run")]

\* HandleShutdown with the alert raised once per case label fallen through
HandleShutdown_AlertTwice(sig, published) ==
    [alerts |-> published \o
                  <<[kind |-> "ALERT_SHUTDOWN_SIGNAL", sig |-> sig],
                    [kind |-> "ALERT_SHUTDOWN_SIGNAL", sig |-> sig]>>,
     calls |-> <<Ev("DBG1", IF sig = "SIGINT" THEN 126 ELSE 132),
                 Ev("alert", 0), Ev("alert", 0), Ev("run_return", 0)>>,
     pc |-> Then("run")]

\* run() 124-135, cases SIGINT and SIGTERM, with the alerts published so
\* far: the alerts on the bus afterwards, the calls made in order and where
\* the thread goes
HandleShutdown(sig, published) ==
    [alerts |-> Append(published,
                       [kind |-> "ALERT_SHUTDOWN_SIGNAL", sig |-> sig]),
     calls |-> <<Ev("DBG1", IF sig = "SIGINT" THEN 126 ELSE 132),
                 Ev("alert", 0), Ev("run_return", 0)>>,
     pc |-> Then("run")]

Shutdown ==
    /\ pc = "sigwait"
    /\ \E sig \in {"SIGINT", "SIGTERM"} :
         \E rcv \in Receivers(sig, workers) :
           IF rcv = "control"
           THEN LET r == HandleShutdown(sig, alerts)
                IN  /\ lastsig' = sig
                    /\ alerts' = r.alerts
                    /\ calls' = calls \o r.calls
                    /\ pc' = r.pc
                    /\ logged' = <<IF sig = "SIGINT" THEN 126 ELSE 132>>
                    /\ loaded' = "none"
                    /\ reloaded' = FALSE
                    /\ UNCHANGED <<listeners, files, settings, struck>>
           ELSE Strike(sig)
    /\ UNCHANGED loopFrame

\* HandleUnknown with the default case treated as a request to shut down
HandleUnknown_Shutdown(sig, cur, ls, published) ==
    [settings |-> cur, loaded |-> "none", reloaded |-> FALSE,
     listeners |-> ls,
     alerts |-> Append(published,
                       [kind |-> "ALERT_SHUTDOWN_SIGNAL", sig |-> sig]),
     logged |-> <<138>>, pc |-> "sigwait"]

\* run() 136-140, the default case for signal sig, with the settings cur,
\* the listeners ls and the alerts published: one DBG1 line, nothing else
HandleUnknown(sig, cur, ls, published) ==
    [settings |-> cur, loaded |-> "none", reloaded |-> FALSE,
     listeners |-> ls, alerts |-> published, logged |-> <<138>>,
     pc |-> "sigwait"]

\* run() 136-140, default: a signal outside the set run() waits for.
\* sigwait() answers with a signal of its set only, so the branch is the
\* code's guard against the unexpected
UnknownSignal ==
    /\ pc = "sigwait"
    /\ \E sig \in Signals \ ControlSignals :
         LET r == HandleUnknown(sig, settings, listeners, alerts)
         IN  /\ lastsig' = sig
             /\ settings' = r.settings
             /\ loaded' = r.loaded
             /\ reloaded' = r.reloaded
             /\ listeners' = r.listeners
             /\ alerts' = r.alerts
             /\ logged' = r.logged
             /\ pc' = r.pc
    /\ UNCHANGED loopFrame
    /\ UNCHANGED <<calls, files, struck>>

\* the administrator edits the configuration files while the daemon waits
EditFiles ==
    /\ pc = "sigwait"
    /\ \E c \in Configs \ {files} : files' = c
    /\ UNCHANGED <<pc, calls, status, mypid, marker, pidfile, pidio,
                   prev, uid, gid, euid, egid, caps, use_syslog, levels,
                   listeners, settings, handlers, mask, workers, alerts, lastsig, loaded, reloaded,
                   logged, struck, fopens, fault>>

(***************************************************************************)
(* segv_handler(), lines 214-225.                                          *)
(***************************************************************************)
\* levels[] as main() 478-481 fills it
InitLevels == [g \in Groups |-> LEVEL_CTRL]

\* the threads of the process: the main thread and, once started, the pool
Threads(wmasks) == {"main"} \cup {"worker" : i \in 1 .. Len(wmasks)}

\* SegvHandler with the handler returning to the code that faulted
SegvHandler_Return(th, sig, at) ==
    [fault |-> [sig |-> sig, thread |-> th, printed |-> th],
     calls |-> <<Ev("DBG1", 218), Ev("backtrace_log", 0), Ev("DBG1", 223)>>,
     pc |-> at]

\* segv_handler(sig) run on thread th while the main thread is at `at`:
\* thread_current_id() is the id of th, the thread the kernel runs the
\* handler on; the lines logged, then abort()
SegvHandler(th, sig, at) ==
    [fault |-> [sig |-> sig, thread |-> th, printed |-> th],
     calls |-> <<Ev("DBG1", 218), Ev("backtrace_log", 0), Ev("DBG1", 223),
                 Ev("abort", 0)>>,
     pc |-> "aborted"]

\* what the process keeps on its heap: the settings, the bus with its
\* listeners, the logger configuration of main() and the state of the
\* dispatch in run()
heap == <<use_syslog, levels, listeners, settings, loaded, reloaded, logged,
          pidfile>>

\* SIGSEGV, SIGILL or SIGBUS is raised on a thread of the running daemon.
\* When the handler has aborted the heap of the process is gone: the
\* variables that hold it go back to what they are before a start.  What
\* the process did (calls, alerts, pidio, fopens, the signal it handled
\* last), the threads and credentials it died with and what is on the disk
\* (marker, files) stay.
Fault ==
    /\ pc \notin {"exited", "aborted", "killed"}
    /\ fault = NoFault
    /\ \E sig \in handlers, th \in Threads(workers) :
         LET r == SegvHandler(th, sig, pc)
         IN  /\ fault' = r.fault
             /\ calls' = calls \o r.calls
             /\ pc' = r.pc
             /\ IF r.pc = "aborted"
                THEN /\ use_syslog' = FALSE /\ levels' = InitLevels
                     /\ listeners' = <<>> /\ settings' = files
                     /\ loaded' = "none" /\ reloaded' = FALSE
                     /\ logged' = <<>> /\ pidfile' = "null"
                ELSE UNCHANGED heap
    /\ UNCHANGED <<uid, gid, euid, egid, caps, handlers, mask, workers,
                   lastsig>>
    /\ UNCHANGED <<status, mypid, marker, pidio, prev, files, alerts,
                   struck, fopens>>

(***************************************************************************)
(* unlink_pidfile(), lines 271-283, and main() 586-595.                    *)
(***************************************************************************)
\* UnlinkPidfileResult without the truncation
UnlinkPidfileResult_NoTruncate(m, fp, truncOK, unlinkOK) ==
    IF unlinkOK THEN NoMarker ELSE m

\* unlink_pidfile() on marker m with the static pidfile fp, when ftruncate()
\* and unlink() would answer truncOK and unlinkOK: the marker afterwards
UnlinkPidfileResult(m, fp, truncOK, unlinkOK) ==
    LET m1 == IF fp # "null" /\ truncOK THEN [m EXCEPT !.content = <<>>]
                                        ELSE m
    IN  IF unlinkOK THEN NoMarker ELSE m1

\* DeinitCalls with the core library torn down before the libraries on it
DeinitCalls_LibraryFirst ==
    <<Ev("library_deinit", 0), Ev("libcharon_deinit", 0),
      Ev("libhydra_deinit", 0)>>

\* the calls after the label deinit, lines 590-593
DeinitCalls ==
    <<Ev("libcharon_deinit", 0), Ev("libhydra_deinit", 0),
      Ev("library_deinit", 0)>>

\* main() 586-594: normal termination, from the return of run() to the
\* return of main()
NormalTermination ==
    /\ pc = "unlink_pidfile"
    /\ \E truncOK \in BOOLEAN, unlinkOK \in BOOLEAN :
         /\ marker' = UnlinkPidfileResult(marker, pidfile, truncOK, unlinkOK)
         /\ pidio' = [pidio EXCEPT
                        !.truncated = pidfile # "null" /\ truncOK,
                        !.unlinked = marker.exists /\ unlinkOK]
    /\ pidfile' = IF pidfile # "null" THEN "closed" ELSE pidfile
    /\ Exit(0, <<Ev("unlink_pidfile", 0)>> \o DeinitCalls)
    /\ UNCHANGED <<mypid, prev, uid, gid, euid, egid, caps,
                   use_syslog, levels, listeners, files, settings, handlers,
                   mask, workers, alerts, lastsig, loaded,
                   reloaded,
                   logged, struck, fopens, fault>>

\* Deinit with the label deinit in front of unlink_pidfile(), line 587
Deinit_ReleasesMarker ==
    /\ pc = "deinit"
    /\ \E truncOK \in BOOLEAN, unlinkOK \in BOOLEAN :
         /\ marker' = UnlinkPidfileResult(marker, pidfile, truncOK, unlinkOK)
         /\ pidio' = [pidio EXCEPT
                        !.truncated = pidfile # "null" /\ truncOK,
                        !.unlinked = marker.exists /\ unlinkOK]
    /\ pidfile' = IF pidfile # "null" THEN "closed" ELSE pidfile
    /\ Exit(status, <<Ev("unlink_pidfile", 0)>> \o DeinitCalls)
    /\ UNCHANGED <<mypid, prev, uid, gid, euid, egid, caps,
                   use_syslog, levels, listeners, files, settings, handlers,
                   mask, workers, alerts, lastsig, loaded,
                   reloaded,
                   logged, struck, fopens, fault>>

\* main() 590-594, reached by goto deinit
Deinit ==
    /\ pc = "deinit"
    /\ Exit(status, DeinitCalls)
    /\ UNCHANGED procRest

(***************************************************************************)
(* The next start of the daemon, once the process before it is gone.       *)
(***************************************************************************)
NextStart ==
    /\ pc \in {"exited", "aborted"}
    /\ mypid' \in CharonPids
    /\ pc' = "library_init"
    /\ calls' = <<>>
    /\ status' = SS_RC_INITIALIZATION_FAILED
    /\ pidfile' = "null"
    /\ pidio' = NoPidIO
    /\ prev' = [clean |-> \E i \in 1 .. Len(calls) :
                             calls[i].op = "unlink_pidfile",
                truncated |-> pidio.truncated,
                unlinked |-> pidio.unlinked]
    /\ uid' = "root" /\ gid' = "root" /\ euid' = "root" /\ egid' = "root"
    /\ caps' = TRUE
    /\ use_syslog' = FALSE
    /\ levels' = InitLevels
    /\ listeners' = <<>>
    /\ settings' = files
    /\ handlers' = {} /\ mask' = {} /\ workers' = <<>>
    /\ alerts' = <<>>
    /\ lastsig' = "none" /\ loaded' = "none" /\ reloaded' = FALSE
    /\ logged' = <<>> /\ struck' = "none" /\ fopens' = {}
    /\ fault' = NoFault
    /\ UNCHANGED <<marker, files>>

Init ==
    /\ pc = "library_init"
    /\ calls = <<>>
    /\ status = SS_RC_INITIALIZATION_FAILED
    /\ mypid \in FirstPids
    /\ marker \in {NoMarker} \cup
                   {[NoMarker EXCEPT !.exists = TRUE, !.content = c,
                                     !.readable = r] :
                       c \in InitialContents, r \in BOOLEAN}
    /\ pidfile = "null"
    /\ pidio = NoPidIO
    /\ prev = NoPrev
    /\ uid = "root" /\ gid = "root" /\ euid = "root" /\ egid = "root"
    /\ caps = TRUE
    /\ use_syslog = FALSE
    /\ levels = InitLevels
    /\ listeners = <<>>
    /\ files \in Configs
    /\ settings = files
    /\ handlers = {} /\ mask = {} /\ workers = <<>>
    /\ alerts = <<>>
    /\ lastsig = "none" /\ loaded = "none" /\ reloaded = FALSE
    /\ logged = <<>> /\ struck = "none" /\ fopens = {}
    /\ fault = NoFault

Next ==
    \/ LibraryInit
    \/ IntegrityCheck
    \/ LibhydraInit
    \/ LibcharonInit
    \/ Arguments
    \/ LookupUidGid
    \/ InitializeLoggers
    \/ DaemonInitialize
    \/ CheckPidfile
    \/ DropCapabilities
    \/ InstallHandlers
    \/ Start
    \/ RunEnter
    \/ SigwaitError
    \/ Sighup
    \/ Shutdown
    \/ UnknownSignal
    \/ EditFiles
    \/ Fault
    \/ NormalTermination
    \/ Deinit
    \/ NextStart

Spec == Init /\ [][Next]_vars

(***************************************************************************)
(* initialize_loggers() on its own: main() calls it at line 542 with the   *)
(* bus still empty, any configuration loaded, and use_stderr and levels[]  *)
(* as the command line left them.                                          *)
(***************************************************************************)
LogInit ==
    /\ pc = "initialize_loggers"
    /\ calls = <<>>
    /\ status = SS_RC_INITIALIZATION_FAILED
    /\ mypid \in FirstPids
    /\ marker = NoMarker
    /\ pidfile = "null"
    /\ pidio = NoPidIO
    /\ prev = NoPrev
    /\ uid = "ipsec" /\ gid = "ipsec" /\ euid = "root" /\ egid = "root"
    /\ caps = TRUE
    /\ use_syslog \in BOOLEAN
    /\ levels \in [Groups -> {LEVEL_CTRL, LEVEL_DIAG}]
    /\ listeners = <<>>
    /\ files \in LogConfigs
    /\ settings = files
    /\ handlers = {} /\ mask = {} /\ workers = <<>>
    /\ alerts = <<>>
    /\ lastsig = "none" /\ loaded = "none" /\ reloaded = FALSE
    /\ logged = <<>> /\ struck = "none" /\ fopens = {}
    /\ fault = NoFault

LogNext == InitializeLoggers

LoggerSpec == LogInit /\ [][LogNext]_vars

(***************************************************************************)
(* What the claims are stated with.                                        *)
(***************************************************************************)
Has(e) == \E i \in 1 .. Len(calls) : calls[i] = e

HasOp(op) == \E i \in 1 .. Len(calls) : calls[i].op = op

CountOp(op) == Cardinality({i \in 1 .. Len(calls) : calls[i].op = op})

\* the position of the first call of op, 0 when there is none
IndexOp(op) ==
    IF HasOp(op)
    THEN CHOOSE i \in 1 .. Len(calls) :
           /\ calls[i].op = op
           /\ \A j \in 1 .. (i - 1) : calls[j].op # op
    ELSE 0

\* a and b were both called, a before b
Before(a, b) == HasOp(a) /\ HasOp(b) /\ IndexOp(a) < IndexOp(b)

IsDeinit(e) ==
    e.op \in {"libcharon_deinit", "libhydra_deinit", "library_deinit"}

\* the teardown calls made so far, in order
Teardown == SelectSeq(calls, IsDeinit)

\* the deinit calls, in the reverse of the initialization order, of the
\* stages that satisfy the test
ReverseDeinit(Test(_)) ==
    (IF Test("libcharon_init") THEN <<Ev("libcharon_deinit", 0)>> ELSE <<>>)
      \o (IF Test("libhydra_init") THEN <<Ev("libhydra_deinit", 0)>> ELSE <<>>)
      \o (IF Test("library_init") THEN <<Ev("library_deinit", 0)>> ELSE <<>>)

Succeeded(stage) == Has(Ev(stage, 1))

Attempted(stage) == HasOp(stage)

\* the process is gone after a startup that failed
StartupFailed == pc = "exited" /\ status # 0

\* one of the three steps of drop_capabilities() failed
DropFailed ==
    Has(Ev("setgid", 0)) \/ Has(Ev("setuid", 0))
        \/ Has(Ev("drop_capabilities", 0))

\* the marker is readable and holds the pid of a live process
LiveMarker ==
    /\ marker.exists /\ marker.readable
    /\ ReadPid(marker) # 0
    /\ Kill(ReadPid(marker), mypid)

\* check_pidfile() returned TRUE in this process
AlreadyRunning == Has(Ev("check_pidfile", 1))

\* no marker, or a marker whose text is the pid of no live process
StaleOrAbsent ==
    ~marker.exists \/ ~Kill(Atoi(Fread(marker.content)), mypid)

\* a step of run() that dispatches a signal of the default case
UnknownStep ==
    /\ pc = "sigwait"
    /\ fault' = fault
    /\ lastsig' \in Signals \ ControlSignals
    /\ lastsig' # lastsig \/ logged' # logged

\* the statuses main() ends with after a failure of the startup
FailureCodes ==
    {0 - 1, SS_RC_LIBSTRONGSWAN_INTEGRITY, SS_RC_DAEMON_INTEGRITY,
     SS_RC_INITIALIZATION_FAILED}

\* a startup failure that is neither an integrity failure, nor a live
\* instance, nor a bad command line
OtherStartupFailure ==
    \/ Has(Ev("libhydra_init", 0)) \/ Has(Ev("libcharon_init", 0))
    \/ Has(Ev("lookup_uid_gid", 0)) \/ Has(Ev("initialize", 0))
    \/ DropFailed

\* the results that make main() give up the startup
FatalEvents ==
    {Ev("library_init", 0), Ev("check_file", 0), Ev("libhydra_init", 0),
     Ev("libcharon_init", 0), Ev("lookup_uid_gid", 0), Ev("initialize", 0),
     Ev("check_pidfile", 1), Ev("setgid", 0), Ev("setuid", 0),
     Ev("drop_capabilities", 0)}

\* a line for the operator: DBG1() on the bus, dbg_stderr(), or the
\* library's own report
IsDiagnostic(e) == e.op \in {"DBG1", "dbg_stderr", "dbg_lib"}

\* a step in which initialize_loggers() runs
LoggersStep == pc = "initialize_loggers" /\ pc' # pc

\* the listeners of a kind and target on the bus after the step
Registered(kind, target) ==
    {k \in 1 .. Len(listeners') :
        listeners'[k].kind = kind /\ listeners'[k].target = target}

\* the syslog facility a section name stands for
FacilityOf(name) ==
    IF name = "daemon" THEN "LOG_DAEMON"
    ELSE IF name = "auth" THEN "LOG_AUTHPRIV" ELSE "none"

\* the threshold a section asks for in group g
Precedence(sec, g) ==
    IF sec.over[g] # {} THEN CHOOSE v \in sec.over[g] : TRUE
    ELSE IF sec.def # {} THEN CHOOSE v \in sec.def : TRUE
    ELSE 1

\* the paths fopen() failed on in the step
FailedPaths == {f.path : f \in {x \in fopens' : ~x.ok}}

\* the sections of the configuration, and those of them the loops of
\* initialize_loggers() leave with continue in the step
SectionCount == Len(settings.syslog) + Len(settings.filelog)

SkippedCount ==
    Cardinality({i \in 1 .. Len(settings.syslog) :
                    settings.syslog[i].name \notin {"daemon", "auth"}})
      + Cardinality({i \in 1 .. Len(settings.filelog) :
                        settings.filelog[i].name \in FailedPaths})

\* the three legacy listeners are on the bus after the step
DefaultTopology ==
    /\ Len(listeners') = 3
    /\ Cardinality(Registered("file", "stdout")) = 1
    /\ Cardinality(Registered("sys", "LOG_DAEMON")) = 1
    /\ Cardinality(Registered("sys", "LOG_AUTHPRIV")) = 1

\* a step in which a fault signal is raised and handled
FaultStep == fault = NoFault /\ fault' # NoFault

\* what segv_handler() writes and calls, in order
FaultTrail ==
    <<Ev("DBG1", 218), Ev("backtrace_log", 0), Ev("DBG1", 223),
      Ev("abort", 0)>>

\* a step of run() that dispatches a SIGHUP
SighupStep ==
    pc = "sigwait" /\ pc' = "sigwait" /\ lastsig' = "SIGHUP" /\ files' = files

(***************************************************************************)
(* C1: in run(), after any number of earlier reload or unrecognized        *)
(* signals, SIGINT or SIGTERM makes run() publish exactly one              *)
(* ALERT_SHUTDOWN_SIGNAL that carries the signal received, before it       *)
(* returns; after the alert no further signal is dispatched.               *)
(***************************************************************************)
C1_ShutdownAlertOnce ==
    /\ [](lastsig \in {"SIGINT", "SIGTERM"} =>
            /\ alerts = <<[kind |-> "ALERT_SHUTDOWN_SIGNAL", sig |-> lastsig]>>
            /\ CountOp("alert") = 1
            /\ CountOp("run_return") = 1
            /\ Before("alert", "run_return")
            /\ pc \in {"unlink_pidfile", "exited", "aborted"})
    /\ [][alerts # <<>> /\ pc \notin {"exited", "aborted"} =>
            /\ alerts' = alerts
            /\ lastsig' = lastsig
            /\ pc' \in {"unlink_pidfile", "exited", "aborted"}]_vars

C1_Witness ==
    /\ pc = "unlink_pidfile"
    /\ lastsig = "SIGTERM"
    /\ Len(alerts) = 1

C3_WorkersOnlyAfterFullDrop ==
    /\ (workers # <<>> \/ HasOp("start") \/ pc \in {"run", "sigwait"}
           \/ HasOp("run_return")) =>
          /\ Has(Ev("setgid", 1)) /\ egid = gid
          /\ Has(Ev("setuid", 1)) /\ euid = uid
          /\ Has(Ev("drop_capabilities", 1)) /\ ~caps
    /\ DropFailed =>
          /\ Has(Ev("DBG1", 560))
          /\ pc \in {"deinit", "exited"}
          /\ status = SS_RC_INITIALIZATION_FAILED
          /\ workers = <<>> /\ ~HasOp("start")
          /\ lastsig = "none" /\ ~HasOp("run_return")
          /\ pc = "exited" => Teardown = DeinitCalls

C3_Witness ==
    /\ pc = "exited"
    /\ Has(Ev("setuid", 0))
    /\ Teardown = DeinitCalls

(***************************************************************************)
(* C4: drop_capabilities() attempts the group switch before the user       *)
(* switch and the user switch before the capability reduction; after a     *)
(* failed group switch neither of the others is attempted, after a failed  *)
(* user switch the capability reduction is not attempted, and in both      *)
(* cases the function reports failure.                                     *)
(***************************************************************************)
C4_GroupThenUserThenCaps ==
    /\ CountOp("setgid") <= 1 /\ CountOp("setuid") <= 1
    /\ CountOp("drop_capabilities") <= 1
    /\ HasOp("setuid") => Has(Ev("setgid", 1)) /\ Before("setgid", "setuid")
    /\ HasOp("drop_capabilities") =>
          Has(Ev("setuid", 1)) /\ Before("setuid", "drop_capabilities")
    /\ Has(Ev("setgid", 0)) =>
          ~HasOp("setuid") /\ ~HasOp("drop_capabilities")
    /\ Has(Ev("setuid", 0)) => ~HasOp("drop_capabilities")
    /\ (Has(Ev("setgid", 0)) \/ Has(Ev("setuid", 0))) =>
          \* main() takes the branch of a FALSE result
          Has(Ev("DBG1", 560)) /\ pc \in {"deinit", "exited"}

C4_Witness ==
    /\ pc = "deinit"
    /\ Has(Ev("setgid", 0))
    /\ ~HasOp("setuid")

(***************************************************************************)
(* C5: one execution of main() calls drop_capabilities() at most once, and *)
(* exactly once when it reaches the start of the worker pool: after        *)
(* charon->initialize() and check_pidfile() and before charon->start(), so *)
(* no worker runs before the privileges are dropped.                       *)
(***************************************************************************)
C5_DropOnceBeforeStart ==
    /\ CountOp("drop_privileges") <= 1
    /\ HasOp("drop_privileges") =>
          /\ Has(Ev("initialize", 1))
          /\ Has(Ev("check_pidfile", 0))
          /\ Before("initialize", "check_pidfile")
          /\ Before("check_pidfile", "drop_privileges")
    /\ (HasOp("start") \/ workers # <<>>) =>
          /\ CountOp("drop_privileges") = 1
          /\ Before("drop_privileges", "start")
          /\ euid = uid /\ egid = gid /\ ~caps

C5_Witness ==
    /\ pc = "sigwait"
    /\ workers # <<>>
    /\ CountOp("drop_privileges") = 1
    /\ euid = "ipsec"


(***************************************************************************)
(* C6: when the marker exists, is readable and holds a non-zero pid that   *)
(* kill(pid, 0) finds alive, check_pidfile() reports already-running and   *)
(* startup aborts with status -1; neither check_pidfile() nor any later    *)
(* step of the aborting process changes or removes the marker, the         *)
(* privileges are not dropped and the worker pool is never started.        *)
(***************************************************************************)
C6_LiveInstanceAborts ==
    /\ [](AlreadyRunning =>
            /\ pc \in {"deinit", "exited"}
            /\ status = 0 - 1
            /\ pc = "exited" => Has(Ev("exit", 0 - 1))
            /\ ~HasOp("drop_privileges") /\ ~HasOp("setgid")
            /\ euid = "root" /\ egid = "root" /\ caps
            /\ workers = <<>> /\ ~HasOp("start")
            /\ ~HasOp("unlink_pidfile") /\ pidio = NoPidIO)
    /\ [][pc = "check_pidfile" /\ LiveMarker =>
            AlreadyRunning' /\ pc' = "deinit" /\ marker' = marker]_vars
    /\ [][AlreadyRunning /\ pc # "exited" => marker' = marker]_vars

C6_Witness ==
    /\ pc = "exited"
    /\ AlreadyRunning
    /\ LiveMarker
    /\ Teardown = DeinitCalls

(***************************************************************************)
(* C7 as stated: when the marker does not exist, or holds a pid of no live *)
(* process, check_pidfile() reports not-running, startup proceeds, and on  *)
(* return the marker exists, holds the pid of the process and belongs to   *)
(* the resolved uid and gid.                                               *)
(***************************************************************************)
C7_MarkerAlwaysClaimed ==
    [][pc = "check_pidfile" /\ StaleOrAbsent =>
         /\ pc' = "drop_capabilities"
         /\ marker'.exists
         /\ marker'.content = FormatPid(mypid)
         /\ marker'.uid = uid /\ marker'.gid = gid]_vars

(***************************************************************************)
(* C7 amended: when the marker does not exist, or holds a pid of no live   *)
(* process, check_pidfile() reports not-running and startup proceeds; on   *)
(* return the marker exists if it could be opened for writing, holds the   *)
(* pid of the process if the write succeeded as well, and belongs to the   *)
(* resolved uid and gid if fchown() succeeded; if it could not be opened,  *)
(* no marker holds the pid of the process and the static pidfile is NULL.  *)
(***************************************************************************)
C7_MarkerClaimedWhenWritable ==
    [][pc = "check_pidfile" /\ StaleOrAbsent =>
         /\ pc' = "drop_capabilities"
         /\ Has(Ev("check_pidfile", 0))'
         /\ pidio'.created => marker'.exists /\ pidfile' = "w"
         /\ pidio'.written =>
               /\ pidio'.created
               /\ marker'.content = FormatPid(mypid)
               /\ Atoi(Fread(marker'.content)) = mypid
         /\ pidio'.chowned =>
               pidio'.created /\ marker'.uid = uid /\ marker'.gid = gid
         /\ ~pidio'.created =>
               /\ pidfile' = "null"
               /\ marker'.content # FormatPid(mypid)
               /\ marker' \in {marker, NoMarker}]_vars

C7_Witness ==
    /\ pc = "drop_capabilities"
    /\ Has(Ev("DBG1", 253))
    /\ pidio.created /\ pidio.chowned /\ pidio.written
    /\ marker.content = FormatPid(mypid)
    /\ marker.uid = "ipsec"

C9_ReloadIffReadSucceeded ==
    [][SighupStep =>
         /\ loaded' \in {"ok", "failed"}
         /\ reloaded' <=> loaded' = "ok"
         /\ loaded' = "failed" => settings' = settings
         /\ loaded' = "ok" => settings' = files
         /\ pc' = "sigwait"
         /\ alerts' = alerts /\ alerts' = <<>>
         /\ calls' = calls]_vars

C9_Witness ==
    /\ pc = "sigwait"
    /\ lastsig = "SIGHUP"
    /\ loaded = "failed" /\ ~reloaded
    /\ settings # files
    /\ alerts = <<>>

(***************************************************************************)
(* C10: reload signals leave the listeners registered on the bus, and      *)
(* every threshold of every listener, as they were after startup.  The     *)
(* formula holds whether or not the files changed in between, so it holds  *)
(* for every sequence of reload signals with no change of configuration.   *)
(***************************************************************************)
C10_ReloadKeepsListeners ==
    [][SighupStep => listeners' = listeners]_vars

C10_Witness ==
    /\ pc = "sigwait"
    /\ lastsig = "SIGHUP"
    /\ loaded = "ok" /\ reloaded
    /\ settings = files
    /\ Len(listeners) = 3

(***************************************************************************)
(* C11: once main() has installed segv_handler(), a SIGSEGV, SIGILL or     *)
(* SIGBUS on any thread makes the handler log the id of the thread it runs *)
(* on, log a backtrace and abort the process.  Control goes back neither   *)
(* to run() nor to main(): the step publishes no alert, leaves the marker  *)
(* file as it is, makes no teardown call, and nothing but a new start of   *)
(* the program follows it.                                                 *)
(***************************************************************************)
C11_FaultAborts ==
    /\ [](fault # NoFault =>
            /\ pc = "aborted"
            /\ fault.sig \in {"SIGSEGV", "SIGILL", "SIGBUS"}
            /\ fault.printed = fault.thread
            /\ Len(calls) >= Len(FaultTrail)
            /\ SubSeq(calls, Len(calls) - Len(FaultTrail) + 1, Len(calls))
                  = FaultTrail)
    /\ [][FaultStep =>
            /\ calls' = calls \o FaultTrail
            /\ alerts' = alerts
            /\ marker' = marker /\ pidio' = pidio
            /\ status' = status]_vars
    /\ [][pc = "aborted" =>
            /\ pc' = "library_init"
            /\ calls' = <<>>
            /\ marker' = marker]_vars

C11_Witness ==
    /\ pc = "aborted"
    /\ fault.sig = "SIGBUS" /\ fault.thread = "worker"
    /\ lastsig = "SIGHUP"
    /\ alerts = <<>>
    /\ marker.exists /\ marker.content = FormatPid(mypid)
    /\ ~HasOp("unlink_pidfile") /\ Teardown = <<>>

(***************************************************************************)
(* C12: SIGINT, SIGTERM and SIGHUP are in the signal mask of the main      *)
(* thread before charon->start() creates the worker pool, so the mask of   *)
(* every worker blocks the three; whenever one of them is pending the only *)
(* thread that can take it is the control thread in sigwait(): no worker   *)
(* is ever struck by one, and every signal run() dispatches was taken at   *)
(* its sigwait().                                                          *)
(***************************************************************************)
C12_ControlSignalsOnlyAtSigwait ==
    /\ []((pc = "start" \/ HasOp("start")) => ControlSignals \subseteq mask)
    /\ [](\A i \in 1 .. Len(workers) : ControlSignals \subseteq workers[i])
    /\ [](\A sig \in ControlSignals :
            Receivers(sig, workers) = {"control"})
    /\ [](struck = "none" /\ pc # "killed")
    /\ [][lastsig' # lastsig /\ lastsig' \in ControlSignals =>
            /\ pc = "sigwait"
            /\ workers # <<>>
            /\ workers' = workers /\ mask' = mask
            /\ struck' = "none"]_vars

C12_Witness ==
    /\ pc = "sigwait"
    /\ workers = <<ControlSignals>>
    /\ mask = ControlSignals
    /\ lastsig = "SIGHUP"
    /\ struck = "none"

(***************************************************************************)
(* C13: with no syslog and no filelog section initialize_loggers()         *)
(* registers exactly three listeners: one file logger on stdout, one       *)
(* syslog logger on LOG_DAEMON and one on LOG_AUTHPRIV; the level of the   *)
(* LOG_AUTHPRIV logger is LEVEL_AUDIT in every group, whatever levels[]    *)
(* the command line gave; no file is opened.                               *)
(***************************************************************************)
C13_DefaultLoggers ==
    [][LoggersStep /\ settings.syslog = <<>> /\ settings.filelog = <<>> =>
         /\ listeners = <<>> /\ Len(listeners') = 3
         /\ Cardinality(Registered("file", "stdout")) = 1
         /\ Cardinality(Registered("sys", "LOG_DAEMON")) = 1
         /\ Cardinality(Registered("sys", "LOG_AUTHPRIV")) = 1
         /\ \A k \in Registered("sys", "LOG_AUTHPRIV") : \A g \in Groups :
               listeners'[k].levels[g] = LEVEL_AUDIT
         /\ fopens' = {}]_vars

C13_Witness ==
    /\ pc = "initialize"
    /\ settings.syslog = <<>> /\ settings.filelog = <<>>
    /\ use_syslog
    /\ \A g \in Groups : levels[g] = LEVEL_DIAG
    /\ Len(listeners) = 3
    /\ listeners[3].target = "LOG_AUTHPRIV"
    /\ \A g \in Groups : listeners[3].levels[g] = LEVEL_AUDIT

(***************************************************************************)
(* C14: every listener built from a syslog or filelog section has, in      *)
(* every group, the level the section sets for that group if it sets one,  *)
(* else the default of the section if it has one, else 1; the level of a   *)
(* group is a function of the section's key for that group and of its      *)
(* default only.  Every listener registered when a section exists is built *)
(* from a section.                                                         *)
(***************************************************************************)
C14_LevelPrecedence ==
    [][LoggersStep =>
         /\ \A i \in 1 .. Len(settings.syslog) :
               LET sec == settings.syslog[i]
               IN  sec.name \in {"daemon", "auth"} =>
                     /\ Registered("sys", FacilityOf(sec.name)) # {}
                     /\ \A k \in Registered("sys", FacilityOf(sec.name)) :
                           \A g \in Groups :
                             listeners'[k].levels[g] = Precedence(sec, g)
         /\ \A i \in 1 .. Len(settings.filelog) :
               LET sec == settings.filelog[i]
               IN  /\ sec.name \notin FailedPaths =>
                         Registered("file", sec.name) # {}
                   /\ \A k \in Registered("file", sec.name) :
                         \A g \in Groups :
                           listeners'[k].levels[g] = Precedence(sec, g)
         /\ Len(settings.syslog) + Len(settings.filelog) > 0 =>
               \A k \in 1 .. Len(listeners') :
                 \/ \E i \in 1 .. Len(settings.syslog) :
                       /\ listeners'[k].kind = "sys"
                       /\ listeners'[k].target =
                            FacilityOf(settings.syslog[i].name)
                 \/ \E i \in 1 .. Len(settings.filelog) :
                       /\ listeners'[k].kind = "file"
                       /\ listeners'[k].target = settings.filelog[i].name]_vars

C14_Witness ==
    /\ pc = "initialize"
    /\ Len(settings.syslog) = 1 /\ Len(settings.filelog) = 1
    /\ settings.syslog[1].def = {LEVEL_DIAG}
    /\ settings.syslog[1].over[0] = {LEVEL_AUDIT}
    /\ settings.syslog[1].over[1] = {}
    /\ settings.filelog[1].def = {}
    /\ settings.filelog[1].over[0] = {}
    /\ Len(listeners) = 2
    /\ listeners[1].levels[0] = LEVEL_AUDIT
    /\ listeners[1].levels[1] = LEVEL_DIAG
    /\ listeners[2].levels[0] = LEVEL_CTRL

(***************************************************************************)
(* C15: for a filelog section named stderr or stdout no fopen() is called  *)
(* and its listener writes to the stream, with no mode and without         *)
(* setlinebuf(), whatever its append and flush_line keys are; for every    *)
(* other name fopen() is called on the name, with mode "w" when append is  *)
(* set to FALSE and with mode "a" otherwise.                               *)
(***************************************************************************)
C15_StreamsAndPaths ==
    [][LoggersStep =>
         \A i \in 1 .. Len(settings.filelog) :
           LET sec == settings.filelog[i]
               mode == IF sec.append = {FALSE} THEN "w" ELSE "a"
           IN  IF sec.name \in {"stderr", "stdout"}
               THEN /\ \A f \in fopens' : f.path # sec.name
                    /\ Registered("file", sec.name) # {}
                    /\ \A k \in Registered("file", sec.name) :
                          /\ listeners'[k].mode = "-"
                          /\ ~listeners'[k].linebuf
               ELSE /\ \E f \in fopens' : f.path = sec.name
                    /\ \A f \in fopens' : f.path = sec.name => f.mode = mode
                    /\ \A k \in Registered("file", sec.name) :
                          listeners'[k].mode = mode]_vars

C15_Witness ==
    /\ pc = "initialize"
    /\ Len(settings.filelog) = 2
    /\ settings.filelog[1].name = "stderr"
    /\ settings.filelog[1].append = {FALSE}
    /\ settings.filelog[1].flush_line = {TRUE}
    /\ settings.filelog[2].name = LogPath
    /\ settings.filelog[2].append = {}
    /\ fopens = {[path |-> LogPath, mode |-> "a", ok |-> TRUE]}
    /\ \E k \in 1 .. Len(listeners) :
          /\ listeners[k].target = "stderr"
          /\ listeners[k].mode = "-" /\ ~listeners[k].linebuf

(***************************************************************************)
(* C16: the exit status of main() tells the cause.  It is 0 exactly for    *)
(* the help flag, the version flag and the termination after run()         *)
(* returned; non-zero for an unrecognized flag; -1 exactly when            *)
(* check_pidfile() found a live instance; the library and daemon integrity *)
(* codes exactly for their checks; the initialization code for every other *)
(* startup failure.  The four failure codes differ from one another and    *)
(* from 0, also as the low byte a parent process reads.                    *)
(***************************************************************************)
C16_StatusTellsCause ==
    /\ pc = "exited" =>
          /\ Has(Ev("exit", status))
          /\ status = 0 <=>
                \/ Has(Ev("usage", 0)) \/ Has(Ev("version", 0))
                \/ HasOp("unlink_pidfile")
          /\ Has(Ev("usage", 1)) => status # 0
          /\ status = 0 - 1 <=> AlreadyRunning
          /\ status = SS_RC_LIBSTRONGSWAN_INTEGRITY <=>
                Has(Ev("library_init", 0))
          /\ status = SS_RC_DAEMON_INTEGRITY <=> Has(Ev("check_file", 0))
          /\ OtherStartupFailure => status = SS_RC_INITIALIZATION_FAILED
    /\ Cardinality({ExitByte(c) : c \in FailureCodes \cup {0}}) = 5

C16_Witness ==
    /\ pc = "exited"
    /\ Has(Ev("initialize", 0))
    /\ status = SS_RC_INITIALIZATION_FAILED
    /\ Has(Ev("exit", SS_RC_INITIALIZATION_FAILED))

C18_UnknownSignalIgnored ==
    [][UnknownStep =>
         /\ logged' = <<138>>
         /\ loaded' = "none" /\ ~reloaded'
         /\ settings' = settings
         /\ listeners' = listeners
         /\ alerts' = alerts /\ alerts' = <<>>
         /\ calls' = calls
         /\ pc' = "sigwait"]_vars

C18_Witness ==
    /\ pc = "sigwait"
    /\ lastsig = "SIGUSR1"
    /\ logged = <<138>>
    /\ loaded = "none" /\ ~reloaded
    /\ alerts = <<>>
    /\ settings # files

(***************************************************************************)
(* C19: when fopen() fails on the name of a filelog section,               *)
(* initialize_loggers() logs the failure, registers no listener for that   *)
(* section and goes on: the listeners on the bus afterwards are the ones   *)
(* it registers when every fopen() succeeds, in the same order and with    *)
(* the same properties, without those of the failed names; main() goes on  *)
(* to charon->initialize() with its status untouched.                      *)
(***************************************************************************)
C19_FailedOpenSkipsOneLogger ==
    [][LoggersStep =>
         LET full == InitializeLoggersResult(settings, ~use_syslog, levels,
                                             Paths(settings))
             Kept(l) == ~(l.kind = "file" /\ l.target \in FailedPaths)
         IN  /\ listeners' = listeners \o SelectSeq(full, Kept)
             /\ \A p \in FailedPaths : Registered("file", p) = {}
             /\ \A i \in 1 .. Len(settings.filelog) :
                   settings.filelog[i].name \notin FailedPaths =>
                      Registered("file", settings.filelog[i].name) # {}
             /\ calls' = calls \o [n \in 1 .. Cardinality(FailedPaths) |->
                                      Ev("DBG1", 356)]
             /\ pc' = "initialize"
             /\ status' = status]_vars

C19_Witness ==
    /\ pc = "initialize"
    /\ Len(settings.syslog) = 1
    /\ Len(settings.filelog) = 2
    /\ settings.filelog[1].name = LogPath
    /\ settings.filelog[2].name = LogPath2
    /\ \E f \in fopens : f.path = LogPath /\ ~f.ok
    /\ \E f \in fopens : f.path = LogPath2 /\ f.ok
    /\ Len(listeners) = 2
    /\ listeners[1].target = "LOG_DAEMON"
    /\ listeners[2].target = LogPath2
    /\ calls = <<Ev("DBG1", 356)>>

(***************************************************************************)
(* C20 as stated: every return of run() to main() is preceded by exactly   *)
(* one published shutdown alert, also when sigwait() reports an error.     *)
(***************************************************************************)
C20_ReturnOnlyAfterAlert ==
    HasOp("run_return") =>
        /\ Len(alerts) = 1
        /\ CountOp("alert") = 1
        /\ Before("alert", "run_return")

(***************************************************************************)
(* C20 amended: run() returns to main() only from the dispatch of SIGINT   *)
(* or SIGTERM or from a failed sigwait(); the return after SIGINT or       *)
(* SIGTERM is preceded by exactly one published shutdown alert, the return *)
(* after a failed sigwait() by the log line of the error and by no alert.  *)
(***************************************************************************)
C20_ReturnAfterAlertOrError ==
    /\ CountOp("run_return") <= 1
    /\ HasOp("run_return") =>
          \/ /\ lastsig \in {"SIGINT", "SIGTERM"}
             /\ alerts = <<[kind |-> "ALERT_SHUTDOWN_SIGNAL",
                            sig |-> lastsig]>>
             /\ CountOp("alert") = 1
             /\ Before("alert", "run_return")
          \/ /\ lastsig = "error"
             /\ alerts = <<>>
             /\ CountOp("alert") = 0
             /\ calls[IndexOp("run_return") - 1] = Ev("DBG1", 105)

C20_Witness ==
    /\ pc = "unlink_pidfile"
    /\ lastsig = "error"
    /\ HasOp("run_return")
    /\ alerts = <<>>

(***************************************************************************)
(* C21: initialize_loggers() installs the three legacy listeners exactly   *)
(* when the configuration has no syslog and no filelog section.  It counts *)
(* the sections, not the listeners built: with sections configured the bus *)
(* holds one listener for each section that was not skipped and nothing    *)
(* else, and when all of them were skipped (unknown facility, fopen()      *)
(* failed) it holds no listener at all.                                    *)
(***************************************************************************)
C21_DefaultsOnlyWithoutSections ==
    [][LoggersStep =>
         /\ SectionCount = 0 <=> DefaultTopology
         /\ SectionCount > 0 =>
               Len(listeners') = SectionCount - SkippedCount
         /\ (SectionCount > 0 /\ SkippedCount = SectionCount) =>
               listeners' = <<>>]_vars

C21_Witness ==
    /\ pc = "initialize"
    /\ Len(settings.syslog) = 1 /\ settings.syslog[1].name = "local0"
    /\ Len(settings.filelog) = 1 /\ settings.filelog[1].name = LogPath
    /\ \E f \in fopens : f.path = LogPath /\ ~f.ok
    /\ listeners = <<>>

(***************************************************************************)
(* C22: unlink_pidfile() is called only on the way from the return of      *)
(* run() to the end of main(), and nothing else truncates or unlinks the   *)
(* marker this process wrote.  When main() jumps to deinit because         *)
(* drop_capabilities() failed after check_pidfile() wrote the marker, the  *)
(* process exits through the teardown calls with the marker still holding  *)
(* its pid.  A jump to deinit before check_pidfile(), or from it because   *)
(* another daemon is running, leaves the marker as it was.                 *)
(***************************************************************************)
C22_MarkerReleasedOnlyAfterRun ==
    /\ [](HasOp("unlink_pidfile") =>
            /\ Before("run_return", "unlink_pidfile")
            /\ CountOp("unlink_pidfile") = 1)
    /\ []((pidio.truncated \/ pidio.unlinked) => HasOp("unlink_pidfile"))
    /\ []((DropFailed /\ pidio.written) =>
            /\ pc \in {"deinit", "exited"}
            /\ marker.exists /\ marker.content = FormatPid(mypid)
            /\ Atoi(Fread(marker.content)) = mypid
            /\ ~HasOp("unlink_pidfile")
            /\ pc = "exited" => Teardown = DeinitCalls)
    /\ [][pc \notin {"check_pidfile", "unlink_pidfile"} =>
            marker' = marker]_vars
    /\ [][pc = "check_pidfile" /\ pc' = "deinit" => marker' = marker]_vars
    /\ [][pc = "deinit" =>
            marker' = marker /\ pidio' = pidio /\ pidfile' = pidfile]_vars

C22_Witness ==
    /\ pc = "exited"
    /\ Has(Ev("drop_capabilities", 0))
    /\ pidio.created /\ pidio.written
    /\ marker.exists /\ marker.content = FormatPid(mypid)
    /\ status = SS_RC_INITIALIZATION_FAILED
    /\ Teardown = DeinitCalls

(***************************************************************************)
(* C23: check_pidfile() returns TRUE exactly when the marker exists, can   *)
(* be read and holds a non-zero pid of a live process.  For a missing      *)
(* marker, an unreadable marker, a marker that parses to pid 0, and when   *)
(* the new marker cannot be created or written, it returns FALSE and       *)
(* main() goes on to drop_capabilities(); the worker pool is then started  *)
(* also by a process of which no marker holds the pid.                     *)
(***************************************************************************)
C23_RunningOnlyForLiveMarker ==
    /\ [][pc = "check_pidfile" /\ pc' # pc =>
            /\ AlreadyRunning' <=> LiveMarker
            /\ AlreadyRunning' => pc' = "deinit"
            /\ ~marker.exists => ~AlreadyRunning'
            /\ ~marker.readable => ~AlreadyRunning'
            /\ Atoi(Fread(marker.content)) = 0 => ~AlreadyRunning'
            /\ ~Kill(Atoi(Fread(marker.content)), mypid) => ~AlreadyRunning'
            /\ ~AlreadyRunning' =>
                  /\ Has(Ev("check_pidfile", 0))'
                  /\ pc' = "drop_capabilities"
                  /\ status' = status]_vars
    /\ []((HasOp("start") /\ Has(Ev("check_pidfile", 0))) =>
            Before("check_pidfile", "start"))

C23_Witness ==
    /\ pc = "sigwait"
    /\ workers # <<>>
    /\ Has(Ev("check_pidfile", 0))
    /\ ~pidio.created /\ ~pidio.written
    /\ marker.exists /\ ~marker.readable
    /\ marker.content # FormatPid(mypid)

============================================================================
